---- MODULE Spec2Model ----
(***************************************************************************)
(* chemistryVAE.py: the top-level run (__main__), the training loop        *)
(* (train_model) with its early-stop check, the latent-space               *)
(* validity/diversity sampler (latent_space_quality) and the               *)
(* reconstruction-quality metric (quality_in_validation_set).              *)
(*                                                                         *)
(* Spec      : __main__ -> train_model -> latent_space_quality.            *)
(* FairSpec  : Spec with weak fairness of the run's next statement.        *)
(* SpecMetric: quality_in_validation_set on bounded batches of indices.    *)
(* SpecDecode: the decode sequences of train_model,                        *)
(*             quality_in_validation_set and sample_latent_space, with     *)
(*             the decoder's hidden state (VAE_decode).                    *)
(***************************************************************************)
EXTENDS Integers, Sequences, FiniteSets

\* ------------------------------------------------------------------ bounds

\* largest configured num_epochs of a run
MaxEpochs == 203
\* largest num_batches_train of a run
MaxBatchesTrain == 2
\* largest configured sample_num of a run
MaxSampleNum == 2
\* len_max_molec: symbols per sampled molecule
MaxMolLen == 2
\* batch_size * max_molecule_length: positions of a validation batch
MaxPositions == 2
\* len_alphabet - 1: the largest symbol index
MaxIndex == 2
\* largest num_batches_valid
MaxBatchesValid == 2
\* largest num_epochs of a run whose decode sequences are followed
MaxDecodeEpochs == 2

\* ------------------------------------------------------- program constants

\* quality_increase > 20
StopRank == 20
\* epoch > 200
EpochFloor == 200
\* quality_valid_list[-1] < 70.
LowQuality == 70
\* quality_valid_list[-1] > 50.
SampleQuality == 50
\* batch_iteration % 30 == 0
LogEvery == 30
\* range(min(25,num_batches_valid))
ValidBatchCap == 25
\* corr, unique = -1., -1.
Sentinel == -1
\* a local of train_model that no statement has assigned yet
Unassigned == -2

\* ------------------------------------------------------------- arithmetic

Min(a, b) == IF a < b THEN a ELSE b

Max(a, b) == IF a > b THEN a ELSE b

Abs(a) == IF a < 0 THEN -a ELSE a

\* ------------------------------------------------------------- exceptions

\* the direct base class of each exception class the run can raise
ExceptionBase ==
  [ AttributeError |-> "Exception",
    NameError |-> "Exception",
    KeyError |-> "LookupError",
    LookupError |-> "Exception",
    FileNotFoundError |-> "OSError",
    OSError |-> "Exception",
    ZeroDivisionError |-> "ArithmeticError",
    ArithmeticError |-> "Exception",
    SystemExit |-> "BaseException",
    Exception |-> "BaseException" ]

RECURSIVE IsSubclass(_, _)
IsSubclass(cls, base) ==
  IF cls = base THEN TRUE
  ELSE IF cls \in DOMAIN ExceptionBase THEN IsSubclass(ExceptionBase[cls], base)
  ELSE FALSE

\* except AttributeError: a NameError handler as well
HandlerCatchesNameError(e) ==
  IsSubclass(e, "AttributeError") \/ IsSubclass(e, "NameError")

\* except AttributeError:
HandlerCatches(e) == IsSubclass(e, "AttributeError")

\* the marker written after the try statement instead of inside it
AfterHandlerMarker == "returned"

\* the handler is the last statement of the script
AfterHandler == "exit"

\* ------------------------------------------------- validation-quality input

\* The validation quality of epoch e is the environment's answer
\* (quality_in_validation_set on the model trained so far).  A run draws one
\* learning curve: a literal prefix, then peaks every `period` epochs that
\* rise by `step` from `start` (capped at 100), and between the peaks the
\* last peak lowered by `dip`.
LiteralCurves ==
  { [prefix |-> <<45, 60, 80, 79, 78>>, period |-> 1, start |-> 78, step |-> 0, dip |-> 0],
    [prefix |-> <<81, 40>>, period |-> 1, start |-> 40, step |-> 0, dip |-> 0],
    [prefix |-> <<50, 51, 51, 70>>, period |-> 1, start |-> 69, step |-> 0, dip |-> 0],
    [prefix |-> <<5>>, period |-> StopRank, start |-> 10, step |-> 5, dip |-> 0] }

PeriodicCurves ==
  [ prefix : {<< >>},
    period : {1, StopRank, StopRank + 1},
    start  : {0, 40},
    step   : {0, 5},
    dip    : {0, 100} ]

Curves == LiteralCurves \cup PeriodicCurves

QualityAt(c, e) ==
  IF e < Len(c.prefix) THEN c.prefix[e + 1]
  ELSE LET k    == e - Len(c.prefix)
           peak == Min(100, c.start + c.step * (k \div c.period))
       IN  IF k % c.period = 0 THEN peak ELSE Max(0, peak - c.dip)

\* ------------------------------------------------------------ train_model

\* np.argmax keeping the last of equal maxima
argmaxLast(list) ==
  LET scan[i \in 0..Len(list), b \in 0..Len(list)] ==
        IF i >= Len(list) THEN b
        ELSE scan[i + 1, IF list[i + 1] >= list[b + 1] THEN i ELSE b]
  IN  scan[1, 0]

\* np.argmax(quality_valid_list): the 0-based first index of the maximum,
\* by a scan from index i with the best index b so far
argmax(list) ==
  LET scan[i \in 0..Len(list), b \in 0..Len(list)] ==
        IF i >= Len(list) THEN b
        ELSE scan[i + 1, IF list[i + 1] > list[b + 1] THEN i ELSE b]
  IN  scan[1, 0]

\* quality_valid_list[-1]
Last(list) == list[Len(list)]

\* quality_increase = len(quality_valid_list) - np.argmax(quality_valid_list)
QualityIncrease(list) == Len(list) - argmax(list)

SampleIfAtLeast(increase, last) == increase = 1 /\ last >= SampleQuality

\* if quality_increase == 1 and quality_valid_list[-1] > 50.:
SampleCondition(increase, last) == increase = 1 /\ last > SampleQuality

StopLowQualityFrom200(last, e) == last < LowQuality /\ e >= EpochFloor

\* if quality_valid_list[-1] < 70. and epoch > 200:
StopLowQuality(last, e) == last < LowQuality /\ e > EpochFloor

\* if quality_increase > 20:
StopNoImprovement(increase) == increase > StopRank

OneEpochMore(e, n) == e + 1 <= n

\* for epoch in range(num_epochs): another epoch follows epoch e
RangeHasNext(e, n) == e + 1 < n

\* ---------------------------------------------------- latent_space_quality

\* encoding_alphabet: a symbol and the padding symbol
Alphabet == <<"C", " ">>

\* sample_latent_space: the index lists the decoder can return
GatheredAtoms == [1..MaxMolLen -> 1..Len(Alphabet)]

\* molecule_pre.replace(' ', '') over the symbols atoms[i..]
RECURSIVE MoleculeFrom(_, _)
MoleculeFrom(atoms, i) ==
  IF i > MaxMolLen THEN << >>
  ELSE IF Alphabet[atoms[i]] = " " THEN MoleculeFrom(atoms, i + 1)
  ELSE <<Alphabet[atoms[i]]>> \o MoleculeFrom(atoms, i + 1)

\* the strings a sample can decode to
Molecules == { MoleculeFrom(a, 1) : a \in GatheredAtoms }

\* is_correct_smiles: the answers the oracle can give for a string
OracleAnswers(smiles) == IF smiles = << >> THEN {0} ELSE {0, 1}

\* no sample of the call has been answered
NoAnswers == [a \in Molecules \X {0, 1} |-> 0]

AddAlways(set, molecule, ok) == set \cup {molecule}

\* if is_correct_smiles(molecule): all_correct_molecules.add(molecule)
AddIfCorrect(set, molecule, ok) == IF ok = 1 THEN set \cup {molecule} ELSE set

\* ----------------------------------------------- quality_in_validation_set

\* the symbol indices torch.max can return
Indices == 0..MaxIndex

DifferenceSigned(d, i) == 1 - (d - i)

\* differences = 1. - torch.abs(decoded_max_indices - input_max_indices)
Difference(d, i) == 1 - Abs(d - i)

ClampMax(x, lo, hi) == IF x > hi THEN hi ELSE x

\* torch.clamp(differences, min = 0., max = 1.)
Clamp(x, lo, hi) == IF x < lo THEN lo ELSE IF x > hi THEN hi ELSE x

RECURSIVE SumFrom(_, _)
SumFrom(seq, i) == IF i > Len(seq) THEN 0 ELSE seq[i] + SumFrom(seq, i + 1)

\* quality = 100. * torch.mean(differences), as the fraction num / den
Quality(diffs) == [num |-> 100 * SumFrom(diffs, 1), den |-> Len(diffs)]

\* np.mean(quality_list) of fractions of one denominator; 0 / 0 is nan
MeanQuality(list) ==
  [num |-> SumFrom([b \in 1..Len(list) |-> list[b].num], 1),
   den |-> SumFrom([b \in 1..Len(list) |-> list[b].den], 1)]

\* ------------------------------------------------------------------ state

\* ------------------------------------------------------------- VAE_decode

\* the functions that run decode sequences; each has its own locals
Functions == {"train_model", "quality_in_validation_set", "sample_latent_space"}

\* a tensor is known by the draw it holds and by its shape without the last
\* dimension (<< >> for (L), <<b>> for (b, L), <<1, b>> for (1, b, L))
NoLatent == [bound |-> FALSE, draw |-> 0, shape |-> << >>]

\* the n-th vector drawn (reparameterize or torch.normal), of the given shape
NewLatent(n, shape) == [bound |-> TRUE, draw |-> n, shape |-> shape]

RECURSIVE NumelFrom(_, _)
NumelFrom(shape, i) ==
  IF i > Len(shape) THEN 1 ELSE shape[i] * NumelFrom(shape, i + 1)

\* number of rows of a tensor of that shape
Numel(shape) == NumelFrom(shape, 1)

\* Tensor.reshape: the same data under another shape of as many elements
CanReshape(t, shape) == Numel(t.shape) = Numel(shape)

reshape(t, shape) == [t EXCEPT !.shape = shape]

\* a hidden state is known by its batch dimension and by the inputs the GRU
\* absorbed since the all-zero state (none: the all-zero state itself)
NoHidden == [bound |-> FALSE, batch |-> 0, absorbed |-> << >>]

\* a hidden state that is not the all-zero state
init_hiddenStale(size) == [bound |-> TRUE, batch |-> size, absorbed |-> <<0>>]

\* VAE_decode.init_hidden: new_zeros(gru_stack_size, batch_size, gru_neurons_num)
init_hidden(size) == [bound |-> TRUE, batch |-> size, absorbed |-> << >>]

\* nn.GRU takes an input (1, batch, L) with a hidden state of the same batch
Accepts(z, h) == z.bound /\ h.bound /\ z.shape = <<1, h.batch>>

\* VAE_decode.forward: one GRU step; the output line and the new hidden
\* state are functions of the hidden state passed in and of z
forward(z, h) ==
  [decoded |-> Append(h.absorbed, z.draw),
   hidden  |-> [h EXCEPT !.absorbed = Append(h.absorbed, z.draw)]]

NoCall ==
  [function |-> "none", z |-> NoLatent, hidden_in |-> NoHidden,
   hidden_out |-> NoHidden, nth |-> 0]

VARIABLES
  pc,                  \* position of the run
  exc,                 \* the exception raised by the run, "none" if none
  type_of_encoding,    \* settings['data']['type_of_encoding']
  data_defined,        \* the global `data` has been assigned
  num_epochs,          \* settings['training']['num_epochs']
  sample_num,          \* settings['training']['sample_num']
  num_batches_train,   \* int(len(data_train) / batch_size)
  curve,               \* the learning curve of this run (environment)
  epoch,               \* train_model: loop counter
  batch_iteration,     \* train_model: inner loop counter
  quality_valid_list,  \* train_model: the quality history
  quality_increase,    \* train_model: rank of the last epoch's quality
  corr,                \* train_model: validity count of the epoch
  unique,              \* train_model: diversity count of the epoch
  sample_i,            \* latent_space_quality: samples taken
  total_correct,       \* latent_space_quality: accepted samples
  all_correct_molecules, \* latent_space_quality: set of accepted strings
  completed_written,   \* the file COMPLETED was written by this run
  error_printed,       \* the handler printed the error message
  \* history variables (observations of the run, read by no action's guard)
  answers,             \* per answer <<molecule, ok>>: the samples of the call that got it
  sampler_invoked,     \* latent_space_quality was called in this epoch
  results_lines,       \* lines appended to results.dat
  log_lines,           \* periodic log lines printed
  best,                \* highest quality seen, the sentinel zeros included
  best_epoch,          \* epoch that first reached `best`, -1 for the sentinels
  no_improve,          \* completed epochs since, none exceeding `best`
  exit_via,            \* how the loop of train_model was left
  \* quality_in_validation_set
  mpc,                 \* position in quality_in_validation_set
  positions,           \* batch_size * inp_smile_hot.shape[1]
  num_batches_valid,   \* int(len(data_valid) / batch_size)
  valid_iteration,     \* batch_iteration of quality_in_validation_set
  decoded_max_indices, \* argmax of the decoder output, per position
  input_max_indices,   \* argmax of the one-hot input, per position
  differences,         \* per position
  quality_list,        \* quality of each batch evaluated
  quality_mean,        \* the value returned
  \* the decode sequences; a local is indexed by the function that owns it
  dpc,                 \* position of the run among the decode sequences
  valid_caller,        \* the call site quality_in_validation_set returns to
  len_max_molec,       \* data.shape[1], also inp_smile_hot.shape[1]
  batch_size,          \* settings['data']['batch_size']
  latent,              \* latent_points / fancy_latent_point of each function
  hidden,              \* the local `hidden` of each function
  seq_index,           \* seq_index / ii of each function
  draws,               \* latent vectors drawn so far (encoder and torch.normal)
  \* history variables of the decode sequences
  init_calls,          \* init_hidden calls in the function's current sequence
  decoder_calls,       \* model_decode calls in the function's current sequence
  completed,           \* decode sequences each function has finished
  last_call            \* arguments and result of the last model_decode call

vars ==
  << pc, exc, type_of_encoding, data_defined, num_epochs, sample_num,
     num_batches_train, curve, epoch, batch_iteration, quality_valid_list,
     quality_increase, corr, unique, sample_i, total_correct, all_correct_molecules,
     completed_written, error_printed, answers, sampler_invoked,
     results_lines, log_lines, best, best_epoch, no_improve, exit_via,
     mpc, positions, num_batches_valid, valid_iteration, decoded_max_indices,
     input_max_indices, differences, quality_list, quality_mean,
     dpc, valid_caller, len_max_molec, batch_size, latent, hidden, seq_index,
     draws, init_calls, decoder_calls, completed, last_call >>

mainVars ==
  << pc, exc, type_of_encoding, data_defined, num_epochs, sample_num,
     num_batches_train, curve, epoch, batch_iteration, quality_valid_list,
     quality_increase, corr, unique, sample_i, total_correct, all_correct_molecules,
     completed_written, error_printed, answers, sampler_invoked,
     results_lines, log_lines, best, best_epoch, no_improve, exit_via >>

metricVars ==
  << mpc, positions, num_batches_valid, valid_iteration, decoded_max_indices,
     input_max_indices, differences, quality_list, quality_mean >>

decodeVars ==
  << dpc, valid_caller, len_max_molec, batch_size, latent, hidden, seq_index,
     draws, init_calls, decoder_calls, completed, last_call >>

\* what the decode sequences leave alone
mainRest ==
  << pc, exc, type_of_encoding, data_defined, curve, quality_valid_list,
     quality_increase, corr, unique, total_correct, all_correct_molecules,
     completed_written, error_printed, answers, sampler_invoked,
     results_lines, log_lines, best, best_epoch, no_improve, exit_via >>

metricRest ==
  << mpc, positions, decoded_max_indices, input_max_indices, differences,
     quality_list, quality_mean >>

decodeSettings ==
  << num_epochs, num_batches_train, num_batches_valid, sample_num,
     len_max_molec, batch_size >>

decodeHistory == << init_calls, decoder_calls, completed, last_call >>

settingsVars == << type_of_encoding, num_epochs, sample_num >>

trainVars ==
  << epoch, batch_iteration, quality_valid_list, quality_increase, corr,
     unique >>

samplerVars == << sample_i, total_correct, all_correct_molecules, answers >>

historyVars ==
  << sampler_invoked, results_lines, log_lines, best, best_epoch,
     no_improve, exit_via >>

outVars == << completed_written, error_printed >>

\* quality_in_validation_set is not running
MetricIdle ==
  /\ mpc = "idle"
  /\ positions = 0
  /\ num_batches_valid = 0
  /\ valid_iteration = 0
  /\ decoded_max_indices = << >>
  /\ input_max_indices = << >>
  /\ differences = << >>
  /\ quality_list = << >>
  /\ quality_mean = [num |-> 0, den |-> 0]

\* no decode sequence is followed
DecodeIdle ==
  /\ dpc = "idle"
  /\ valid_caller = "none"
  /\ len_max_molec = 0
  /\ batch_size = 0
  /\ latent = [f \in Functions |-> NoLatent]
  /\ hidden = [f \in Functions |-> NoHidden]
  /\ seq_index = [f \in Functions |-> 0]
  /\ draws = 0
  /\ init_calls = [f \in Functions |-> 0]
  /\ decoder_calls = [f \in Functions |-> 0]
  /\ completed = [f \in Functions |-> 0]
  /\ last_call = NoCall

MainInit(curves) ==
  /\ pc = "start"
  /\ exc = "none"
  /\ type_of_encoding = Unassigned
  /\ data_defined = FALSE
  /\ num_epochs = Unassigned
  /\ sample_num = Unassigned
  /\ num_batches_train = Unassigned
  /\ curve \in curves
  /\ epoch = Unassigned
  /\ batch_iteration = Unassigned
  /\ quality_valid_list = << >>
  /\ quality_increase = Unassigned
  /\ corr = Unassigned
  /\ unique = Unassigned
  /\ sample_i = 0
  /\ total_correct = 0
  /\ all_correct_molecules = {}
  /\ completed_written = FALSE
  /\ error_printed = FALSE
  /\ answers = NoAnswers
  /\ sampler_invoked = FALSE
  /\ results_lines = 0
  /\ log_lines = 0
  /\ best = 0
  /\ best_epoch = -1
  /\ no_improve = 0
  /\ exit_via = "none"

Init == MainInit(Curves) /\ MetricIdle /\ DecodeIdle

\* raise e at the current statement
Raise(e) == pc' = "raised" /\ exc' = e

\* ------------------------------------------------------------- __main__

\* lines 442-453: truncate the logs, load settings.yml or exit()
LoadSettings ==
  /\ pc = "start"
  /\ \E settings_exists \in BOOLEAN :
       IF settings_exists
       THEN /\ pc' = "acquire"
            /\ exc' = exc
       ELSE Raise("SystemExit")
  /\ UNCHANGED << metricVars, decodeVars >>
  /\ UNCHANGED << settingsVars, data_defined, num_batches_train, curve,
                  trainVars, samplerVars, historyVars, outVars >>

\* lines 456-462: read the encoding choice and the data set
AcquireData ==
  /\ pc = "acquire"
  /\ \E has_data_key \in BOOLEAN, csv \in {"ok", "no_file", "no_smiles_column"},
        toe \in {0, 1, 2} :
       IF ~has_data_key
       THEN Raise("KeyError") /\ type_of_encoding' = type_of_encoding
       ELSE /\ type_of_encoding' = toe
            /\ IF csv = "no_file" THEN Raise("FileNotFoundError")
               ELSE IF csv = "no_smiles_column" THEN Raise("AttributeError")
               ELSE pc' = "encode" /\ exc' = exc
  /\ UNCHANGED << metricVars, decodeVars >>
  /\ UNCHANGED << num_epochs, sample_num, data_defined, num_batches_train,
                  curve, trainVars, samplerVars, historyVars, outVars >>

\* lines 464-481: build the one-hot data of the chosen encoding
CreateOneHot ==
  /\ pc = "encode"
  /\ pc' = "shape"
  /\ data_defined' = (type_of_encoding = 0 \/ type_of_encoding = 1)
  /\ UNCHANGED << metricVars, decodeVars >>
  /\ UNCHANGED << exc, settingsVars, num_batches_train, curve, trainVars,
                  samplerVars, historyVars, outVars >>

\* lines 483-485: len_max_molec = data.shape[1]
ReadShape ==
  /\ pc = "shape"
  /\ IF data_defined THEN pc' = "setup" /\ exc' = exc ELSE Raise("NameError")
  /\ UNCHANGED << metricVars, decodeVars >>
  /\ UNCHANGED << settingsVars, data_defined, num_batches_train, curve,
                  trainVars, samplerVars, historyVars, outVars >>

\* lines 489-522: build the models, split the data, read the training settings
Setup ==
  /\ pc = "setup"
  /\ \E has_training_key \in BOOLEAN, n \in {0, 1, StopRank - 3, MaxEpochs},
        s \in {0, 1, MaxSampleNum}, b \in {0, MaxBatchesTrain} :
       IF ~has_training_key
       THEN /\ Raise("KeyError")
            /\ UNCHANGED << num_epochs, sample_num, num_batches_train >>
       ELSE /\ pc' = "train_model"
            /\ exc' = exc
            /\ num_epochs' = n
            /\ sample_num' = s
            /\ num_batches_train' = b
  /\ UNCHANGED << metricVars, decodeVars >>
  /\ UNCHANGED << type_of_encoding, data_defined, curve, trainVars,
                  samplerVars, historyVars, outVars >>

\* lines 525-526: train_model returned, write the completion marker
WriteMarker ==
  /\ pc = "returned"
  /\ pc' = "exit"
  /\ completed_written' = TRUE
  /\ UNCHANGED << metricVars, decodeVars >>
  /\ UNCHANGED << exc, settingsVars, data_defined, num_batches_train, curve,
                  trainVars, samplerVars, historyVars, error_printed >>

\* lines 529-531: except AttributeError prints; anything else leaves the script
Handler ==
  /\ pc = "raised"
  /\ IF HandlerCatches(exc)
     THEN /\ pc' = AfterHandler
          /\ exc' = exc
          /\ error_printed' = TRUE
     ELSE /\ pc' = "uncaught"
          /\ exc' = exc
          /\ error_printed' = error_printed
  /\ UNCHANGED << metricVars, decodeVars >>
  /\ UNCHANGED << settingsVars, data_defined, num_batches_train, curve,
                  trainVars, samplerVars, historyVars, completed_written >>

\* ------------------------------------------------------------ train_model

\* lines 298-309: seed the history, enter the epoch loop
TrainEnter ==
  /\ pc = "train_model"
  /\ quality_valid_list' = << 0, 0, 0, 0 >>
  /\ IF 0 < num_epochs
     THEN /\ pc' = "epoch_start"
          /\ epoch' = 0
          /\ exit_via' = exit_via
     ELSE /\ pc' = "returned"
          /\ epoch' = epoch
          /\ exit_via' = "exhausted"
  /\ UNCHANGED << metricVars, decodeVars >>
  /\ UNCHANGED << exc, settingsVars, data_defined, num_batches_train, curve,
                  batch_iteration, quality_increase, corr, unique,
                  samplerVars, sampler_invoked, results_lines, log_lines,
                  best, best_epoch, no_improve, outVars >>

\* lines 310-315: shuffle the training set, enter the batch loop
EpochStart ==
  /\ pc = "epoch_start"
  /\ IF 0 < num_batches_train
     THEN pc' = "batch" /\ batch_iteration' = 0
     ELSE pc' = "validate" /\ batch_iteration' = batch_iteration
  /\ sampler_invoked' = FALSE
  /\ UNCHANGED << metricVars, decodeVars >>
  /\ UNCHANGED << exc, settingsVars, data_defined, num_batches_train, curve,
                  epoch, quality_valid_list, quality_increase, corr, unique,
                  samplerVars, results_lines, log_lines, best, best_epoch,
                  no_improve, exit_via, outVars >>

\* lines 317-378: one batch: encode, decode, update, periodic log
Batch ==
  /\ pc = "batch"
  /\ log_lines' = IF batch_iteration % LogEvery = 0 THEN log_lines + 1
                  ELSE log_lines
  /\ IF batch_iteration + 1 < num_batches_train
     THEN pc' = "batch" /\ batch_iteration' = batch_iteration + 1
     ELSE pc' = "validate" /\ batch_iteration' = batch_iteration
  /\ UNCHANGED << metricVars, decodeVars >>
  /\ UNCHANGED << exc, settingsVars, data_defined, num_batches_train, curve,
                  epoch, quality_valid_list, quality_increase, corr, unique,
                  samplerVars, sampler_invoked, results_lines, best,
                  best_epoch, no_improve, exit_via, outVars >>

\* lines 382-390: validate, append, rank, and sample or record the sentinel
Validate ==
  /\ pc = "validate"
  /\ \E qualityValid \in {QualityAt(curve, epoch)} :
       \E list \in {Append(quality_valid_list, qualityValid)} :
         \E increase \in {QualityIncrease(list)} :
           /\ quality_valid_list' = list
           /\ quality_increase' = increase
           /\ IF qualityValid > best
              THEN best' = qualityValid /\ best_epoch' = epoch
                   /\ no_improve' = 0
              ELSE best' = best /\ best_epoch' = best_epoch
                   /\ no_improve' = no_improve + 1
           /\ IF SampleCondition(increase, qualityValid)
              THEN /\ pc' = "sampling"
                   /\ sampler_invoked' = TRUE
                   /\ sample_i' = 0
                   /\ total_correct' = 0
                   /\ all_correct_molecules' = {}
                   /\ answers' = NoAnswers
                   /\ UNCHANGED << corr, unique >>
              ELSE /\ pc' = "epoch_end"
                   /\ corr' = Sentinel
                   /\ unique' = Sentinel
                   /\ UNCHANGED << sampler_invoked, samplerVars >>
  /\ UNCHANGED << metricVars, decodeVars >>
  /\ UNCHANGED << exc, settingsVars, data_defined, num_batches_train, curve,
                  epoch, batch_iteration, results_lines, log_lines, exit_via,
                  outVars >>

\* lines 234-246: one sample: decode, strip the padding, convert (the SELFIES
\* decoder may return any string), ask the oracle
Sample ==
  /\ pc = "sampling"
  /\ sample_i < sample_num
  /\ \E molecule \in IF type_of_encoding = 1 THEN Molecules
                     ELSE { MoleculeFrom(atoms, 1) : atoms \in GatheredAtoms } :
       \E ok \in OracleAnswers(molecule) :
         /\ total_correct' = total_correct + ok
         /\ all_correct_molecules' =
              AddIfCorrect(all_correct_molecules, molecule, ok)
         /\ answers' = [answers EXCEPT ![<< molecule, ok >>] = @ + 1]
  /\ sample_i' = sample_i + 1
  /\ UNCHANGED << metricVars, decodeVars >>
  /\ UNCHANGED << pc, exc, settingsVars, data_defined, num_batches_train,
                  curve, trainVars, historyVars, outVars >>

\* line 248 and line 388: return the counts to train_model; the locals of the
\* call are gone
SamplerReturn ==
  /\ pc = "sampling"
  /\ sample_i >= sample_num
  /\ pc' = "epoch_end"
  /\ corr' = total_correct
  /\ unique' = Cardinality(all_correct_molecules)
  /\ sample_i' = 0
  /\ total_correct' = 0
  /\ all_correct_molecules' = {}
  /\ answers' = NoAnswers
  /\ UNCHANGED << metricVars, decodeVars >>
  /\ UNCHANGED << exc, settingsVars, data_defined, num_batches_train, curve,
                  epoch, batch_iteration, quality_valid_list, quality_increase,
                  historyVars, outVars >>

\* lines 392-403 and the loop header: log the epoch, stop or go on
EpochEnd ==
  /\ pc = "epoch_end"
  /\ IF sample_num = 0
     THEN /\ Raise("ZeroDivisionError")
          /\ UNCHANGED << epoch, results_lines, exit_via >>
     ELSE /\ exc' = exc
          /\ results_lines' = results_lines + 1
          /\ IF StopLowQuality(Last(quality_valid_list), epoch)
             THEN pc' = "returned" /\ exit_via' = "low_quality" /\ epoch' = epoch
             ELSE IF StopNoImprovement(quality_increase)
             THEN pc' = "returned" /\ exit_via' = "rank" /\ epoch' = epoch
             ELSE IF RangeHasNext(epoch, num_epochs)
             THEN pc' = "epoch_start" /\ exit_via' = exit_via
                  /\ epoch' = epoch + 1
             ELSE pc' = "returned" /\ exit_via' = "exhausted" /\ epoch' = epoch
  /\ UNCHANGED << metricVars, decodeVars >>
  /\ UNCHANGED << settingsVars, data_defined, num_batches_train, curve,
                  batch_iteration, quality_valid_list, quality_increase, corr,
                  unique, samplerVars, sampler_invoked, log_lines, best,
                  best_epoch, no_improve, outVars >>

Next ==
  \/ LoadSettings
  \/ AcquireData
  \/ CreateOneHot
  \/ ReadShape
  \/ Setup
  \/ WriteMarker
  \/ Handler
  \/ TrainEnter
  \/ EpochStart
  \/ Batch
  \/ Validate
  \/ Sample
  \/ SamplerReturn
  \/ EpochEnd

Spec == Init /\ [][Next]_vars

\* the run is one sequential control path: its next statement is always taken
FairSpec == Spec /\ WF_vars(Next)

\* ----------------------------------------------- quality_in_validation_set

\* lines 252-257: the call starts on some validation set
InitMetric ==
  /\ MainInit({ [prefix |-> << >>, period |-> 1, start |-> 0, step |-> 0,
                 dip |-> 0] })
  /\ mpc = "loop"
  /\ positions \in 1..MaxPositions
  /\ num_batches_valid \in 0..MaxBatchesValid
  /\ valid_iteration = 0
  /\ decoded_max_indices = << >>
  /\ input_max_indices = << >>
  /\ differences = << >>
  /\ quality_list = << >>
  /\ quality_mean = [num |-> 0, den |-> 0]
  /\ DecodeIdle

\* lines 259-278: encode and decode a batch, take the indices of the maxima
MetricDecode ==
  /\ mpc = "loop"
  /\ valid_iteration < Min(ValidBatchCap, num_batches_valid)
  /\ decoded_max_indices' \in [1..positions -> Indices]
  /\ input_max_indices' \in [1..positions -> Indices]
  /\ mpc' = "differences"
  /\ UNCHANGED << positions, num_batches_valid, valid_iteration, differences,
                  quality_list, quality_mean >>
  /\ UNCHANGED << mainVars, decodeVars >>

\* line 280
MetricDifferences ==
  /\ mpc = "differences"
  /\ differences' =
       [p \in 1..positions |->
          Difference(decoded_max_indices[p], input_max_indices[p])]
  /\ mpc' = "clamp"
  /\ UNCHANGED << positions, num_batches_valid, valid_iteration,
                  decoded_max_indices, input_max_indices, quality_list,
                  quality_mean >>
  /\ UNCHANGED << mainVars, decodeVars >>

\* line 281
MetricClamp ==
  /\ mpc = "clamp"
  /\ differences' = [p \in 1..positions |-> Clamp(differences[p], 0, 1)]
  /\ mpc' = "quality"
  /\ UNCHANGED << positions, num_batches_valid, valid_iteration,
                  decoded_max_indices, input_max_indices, quality_list,
                  quality_mean >>
  /\ UNCHANGED << mainVars, decodeVars >>

\* lines 282-284
MetricQuality ==
  /\ mpc = "quality"
  /\ quality_list' = Append(quality_list, Quality(differences))
  /\ mpc' = "appended"
  /\ UNCHANGED << positions, num_batches_valid, valid_iteration,
                  decoded_max_indices, input_max_indices, differences,
                  quality_mean >>
  /\ UNCHANGED << mainVars, decodeVars >>

\* line 257: the loop header; the locals of the iteration are dead until the
\* next iteration rebinds them
MetricLoop ==
  /\ mpc = "appended"
  /\ valid_iteration' = valid_iteration + 1
  /\ decoded_max_indices' = << >>
  /\ input_max_indices' = << >>
  /\ differences' = << >>
  /\ mpc' = "loop"
  /\ UNCHANGED << positions, num_batches_valid, quality_list, quality_mean >>
  /\ UNCHANGED << mainVars, decodeVars >>

\* line 286
MetricReturn ==
  /\ mpc = "loop"
  /\ valid_iteration >= Min(ValidBatchCap, num_batches_valid)
  /\ quality_mean' = MeanQuality(quality_list)
  /\ mpc' = "done"
  /\ UNCHANGED << positions, num_batches_valid, valid_iteration,
                  decoded_max_indices, input_max_indices, differences,
                  quality_list >>
  /\ UNCHANGED << mainVars, decodeVars >>

NextMetric ==
  \/ MetricDecode
  \/ MetricDifferences
  \/ MetricClamp
  \/ MetricQuality
  \/ MetricLoop
  \/ MetricReturn

SpecMetric == InitMetric /\ [][NextMetric]_vars

\* --------------------------------------------------------- decode sequences

\* line 523: train_model is entered with the data, the models and the
\* settings of lines 483-521
InitDecode ==
  /\ pc = "train_model"
  /\ exc = "none"
  /\ type_of_encoding \in {0, 1}
  /\ data_defined = TRUE
  /\ curve = [prefix |-> << >>, period |-> 1, start |-> 0, step |-> 0,
              dip |-> 0]
  /\ quality_valid_list = << >>
  /\ quality_increase = Unassigned
  /\ corr = Unassigned
  /\ unique = Unassigned
  /\ total_correct = 0
  /\ all_correct_molecules = {}
  /\ completed_written = FALSE
  /\ error_printed = FALSE
  /\ answers = NoAnswers
  /\ sampler_invoked = FALSE
  /\ results_lines = 0
  /\ log_lines = 0
  /\ best = 0
  /\ best_epoch = -1
  /\ no_improve = 0
  /\ exit_via = "none"
  /\ mpc = "idle"
  /\ positions = 0
  /\ decoded_max_indices = << >>
  /\ input_max_indices = << >>
  /\ differences = << >>
  /\ quality_list = << >>
  /\ quality_mean = [num |-> 0, den |-> 0]
  /\ num_epochs \in 0..MaxDecodeEpochs
  /\ num_batches_valid \in 0..MaxBatchesValid
  /\ valid_iteration = 0
  /\ num_batches_train \in 0..MaxBatchesTrain
  /\ sample_num \in 0..MaxSampleNum
  /\ len_max_molec \in 1..MaxMolLen
  /\ batch_size \in {1, 2}
  /\ epoch = 0
  /\ batch_iteration = 0
  /\ sample_i = 0
  /\ dpc = "epoch"
  /\ valid_caller = "none"
  /\ latent = [f \in Functions |-> NoLatent]
  /\ hidden = [f \in Functions |-> NoHidden]
  /\ seq_index = [f \in Functions |-> 0]
  /\ draws = 0
  /\ init_calls = [f \in Functions |-> 0]
  /\ decoder_calls = [f \in Functions |-> 0]
  /\ completed = [f \in Functions |-> 0]
  /\ last_call = NoCall

\* a decode sequence of function f starts on the vector z
StartSequence(f, z) ==
  /\ draws' = draws + 1
  /\ latent' = [latent EXCEPT ![f] = z]
  /\ init_calls' = [init_calls EXCEPT ![f] = 0]
  /\ decoder_calls' = [decoder_calls EXCEPT ![f] = 0]

\* hidden = model_decode.init_hidden(batch_size = size), and the loop over
\* the positions of the molecule starts
BindHidden(f, size) ==
  /\ hidden' = [hidden EXCEPT ![f] = init_hidden(size)]
  /\ seq_index' = [seq_index EXCEPT ![f] = 0]
  /\ init_calls' = [init_calls EXCEPT ![f] = @ + 1]

\* ..., hidden = model_decode(z, hidden) in function f
CallDecoder(f, z) ==
  /\ hidden' = [hidden EXCEPT ![f] = forward(z, hidden[f]).hidden]
  /\ seq_index' = [seq_index EXCEPT ![f] = @ + 1]
  /\ decoder_calls' = [decoder_calls EXCEPT ![f] = @ + 1]
  /\ last_call' = [function |-> f, z |-> z, hidden_in |-> hidden[f],
                   hidden_out |-> forward(z, hidden[f]).hidden,
                   nth |-> decoder_calls[f] + 1]

\* the locals of f die when f returns
Unbind(f) ==
  /\ latent' = [latent EXCEPT ![f] = NoLatent]
  /\ hidden' = [hidden EXCEPT ![f] = NoHidden]
  /\ seq_index' = [seq_index EXCEPT ![f] = 0]

\* lines 309-315: the next epoch starts, or range(num_epochs) is exhausted
DecodeEpoch ==
  /\ dpc = "epoch"
  /\ IF epoch < num_epochs
     THEN dpc' = "batch" /\ batch_iteration' = 0
     ELSE dpc' = "returned" /\ batch_iteration' = batch_iteration
  /\ UNCHANGED << mainRest, metricRest, decodeSettings, decodeHistory, epoch,
                  sample_i, valid_iteration, valid_caller, latent, hidden,
                  seq_index, draws >>

\* lines 315-329: the batch is encoded to latent_points (1, batch_size, L)
TrainEncode ==
  /\ dpc = "batch"
  /\ batch_iteration < num_batches_train
  /\ IF CanReshape(NewLatent(draws + 1, <<batch_size>>), <<1, batch_size>>)
     THEN /\ StartSequence("train_model",
                reshape(NewLatent(draws + 1, <<batch_size>>), <<1, batch_size>>))
          /\ dpc' = "t_init"
     ELSE /\ dpc' = "raised"
          /\ UNCHANGED << draws, latent, init_calls, decoder_calls >>
  /\ UNCHANGED << mainRest, metricRest, decodeSettings, epoch, batch_iteration,
                  sample_i, valid_iteration, valid_caller, hidden, seq_index,
                  completed, last_call >>

\* lines 335-338
TrainInitHidden ==
  /\ dpc = "t_init"
  /\ BindHidden("train_model", batch_size)
  /\ dpc' = "t_decode"
  /\ UNCHANGED << mainRest, metricRest, decodeSettings, epoch, batch_iteration,
                  sample_i, valid_iteration, valid_caller, latent, draws,
                  decoder_calls, completed, last_call >>

\* lines 339-341: one position of the molecule
TrainDecodeStep ==
  /\ dpc = "t_decode"
  /\ seq_index["train_model"] < len_max_molec
  /\ IF Accepts(latent["train_model"], hidden["train_model"])
     THEN /\ CallDecoder("train_model", latent["train_model"])
          /\ dpc' = "t_decode"
     ELSE /\ dpc' = "raised"
          /\ UNCHANGED << hidden, seq_index, decoder_calls, last_call >>
  /\ UNCHANGED << mainRest, metricRest, decodeSettings, epoch, batch_iteration,
                  sample_i, valid_iteration, valid_caller, latent, draws,
                  init_calls, completed >>

\* lines 344-378: loss, update, and every 30th batch the log line with a
\* call of quality_in_validation_set
TrainUpdate ==
  /\ dpc = "t_decode"
  /\ seq_index["train_model"] >= len_max_molec
  /\ completed' = [completed EXCEPT !["train_model"] = @ + 1]
  /\ IF batch_iteration % LogEvery = 0
     THEN /\ dpc' = "v_batch"
          /\ valid_caller' = "log"
          /\ valid_iteration' = 0
          /\ batch_iteration' = batch_iteration
     ELSE /\ dpc' = "batch"
          /\ batch_iteration' = batch_iteration + 1
          /\ UNCHANGED << valid_caller, valid_iteration >>
  /\ UNCHANGED << mainRest, metricRest, decodeSettings, epoch, sample_i,
                  latent, hidden, seq_index, draws, init_calls, decoder_calls,
                  last_call >>

\* line 382: the batches are done, quality_in_validation_set is called
TrainValidate ==
  /\ dpc = "batch"
  /\ batch_iteration >= num_batches_train
  /\ dpc' = "v_batch"
  /\ valid_caller' = "epoch_end"
  /\ valid_iteration' = 0
  /\ UNCHANGED << mainRest, metricRest, decodeSettings, decodeHistory, epoch,
                  batch_iteration, sample_i, latent, hidden, seq_index,
                  draws >>

\* lines 257-264: a validation batch is encoded
ValidEncode ==
  /\ dpc = "v_batch"
  /\ valid_iteration < Min(ValidBatchCap, num_batches_valid)
  /\ IF CanReshape(NewLatent(draws + 1, <<batch_size>>), <<1, batch_size>>)
     THEN /\ StartSequence("quality_in_validation_set",
                reshape(NewLatent(draws + 1, <<batch_size>>), <<1, batch_size>>))
          /\ dpc' = "v_init"
     ELSE /\ dpc' = "raised"
          /\ UNCHANGED << draws, latent, init_calls, decoder_calls >>
  /\ UNCHANGED << mainRest, metricRest, decodeSettings, epoch, batch_iteration,
                  sample_i, valid_iteration, valid_caller, hidden, seq_index,
                  completed, last_call >>

\* lines 266-267
ValidInitHidden ==
  /\ dpc = "v_init"
  /\ BindHidden("quality_in_validation_set", batch_size)
  /\ dpc' = "v_decode"
  /\ UNCHANGED << mainRest, metricRest, decodeSettings, epoch, batch_iteration,
                  sample_i, valid_iteration, valid_caller, latent, draws,
                  decoder_calls, completed, last_call >>

\* lines 268-270
ValidDecodeStep ==
  /\ dpc = "v_decode"
  /\ seq_index["quality_in_validation_set"] < len_max_molec
  /\ IF Accepts(latent["quality_in_validation_set"],
                hidden["quality_in_validation_set"])
     THEN /\ CallDecoder("quality_in_validation_set",
                         latent["quality_in_validation_set"])
          /\ dpc' = "v_decode"
     ELSE /\ dpc' = "raised"
          /\ UNCHANGED << hidden, seq_index, decoder_calls, last_call >>
  /\ UNCHANGED << mainRest, metricRest, decodeSettings, epoch, batch_iteration,
                  sample_i, valid_iteration, valid_caller, latent, draws,
                  init_calls, completed >>

\* lines 272-284: the quality of the batch is appended
ValidQuality ==
  /\ dpc = "v_decode"
  /\ seq_index["quality_in_validation_set"] >= len_max_molec
  /\ completed' = [completed EXCEPT !["quality_in_validation_set"] = @ + 1]
  /\ valid_iteration' = valid_iteration + 1
  /\ dpc' = "v_batch"
  /\ UNCHANGED << mainRest, metricRest, decodeSettings, epoch, batch_iteration,
                  sample_i, valid_caller, latent, hidden, seq_index, draws,
                  init_calls, decoder_calls, last_call >>

\* line 286: back to the log line (lines 376-378) or to the epoch end
ValidReturn ==
  /\ dpc = "v_batch"
  /\ valid_iteration >= Min(ValidBatchCap, num_batches_valid)
  /\ Unbind("quality_in_validation_set")
  /\ IF valid_caller = "log"
     THEN dpc' = "batch" /\ batch_iteration' = batch_iteration + 1
     ELSE dpc' = "epoch_end" /\ batch_iteration' = batch_iteration
  /\ valid_caller' = "none"
  /\ UNCHANGED << mainRest, metricRest, decodeSettings, decodeHistory, epoch,
                  sample_i, valid_iteration, draws >>

\* lines 383-390: the rank of the epoch decides whether latent_space_quality
\* is called (lines 228-232); the qualities are not followed here
DecodeRank ==
  /\ dpc = "epoch_end"
  /\ \E sampling \in BOOLEAN :
       IF sampling
       THEN dpc' = "s_loop" /\ sample_i' = 0
       ELSE dpc' = "epoch_close" /\ sample_i' = sample_i
  /\ UNCHANGED << mainRest, metricRest, decodeSettings, decodeHistory, epoch,
                  batch_iteration, valid_iteration, valid_caller, latent,
                  hidden, seq_index, draws >>

\* lines 234-237, 200-203: the next sample: a point of the latent space
SampleDraw ==
  /\ dpc = "s_loop"
  /\ sample_i < sample_num
  /\ StartSequence("sample_latent_space", NewLatent(draws + 1, << >>))
  /\ dpc' = "s_init"
  /\ UNCHANGED << mainRest, metricRest, decodeSettings, epoch, batch_iteration,
                  sample_i, valid_iteration, valid_caller, hidden, seq_index,
                  completed, last_call >>

\* lines 205-206: init_hidden() with its default batch_size = 1
SampleInitHidden ==
  /\ dpc = "s_init"
  /\ BindHidden("sample_latent_space", 1)
  /\ dpc' = "s_decode"
  /\ UNCHANGED << mainRest, metricRest, decodeSettings, epoch, batch_iteration,
                  sample_i, valid_iteration, valid_caller, latent, draws,
                  decoder_calls, completed, last_call >>

\* lines 207-219: the point is reshaped to (1, 1, L) and decoded one position
SampleDecodeStep ==
  /\ dpc = "s_decode"
  /\ seq_index["sample_latent_space"] < len_max_molec
  /\ IF /\ CanReshape(latent["sample_latent_space"], <<1, 1>>)
        /\ Accepts(reshape(latent["sample_latent_space"], <<1, 1>>),
                   hidden["sample_latent_space"])
     THEN /\ latent' = [latent EXCEPT !["sample_latent_space"] =
                          reshape(@, <<1, 1>>)]
          /\ CallDecoder("sample_latent_space",
                         reshape(latent["sample_latent_space"], <<1, 1>>))
          /\ dpc' = "s_decode"
     ELSE /\ dpc' = "raised"
          /\ UNCHANGED << latent, hidden, seq_index, decoder_calls,
                          last_call >>
  /\ UNCHANGED << mainRest, metricRest, decodeSettings, epoch, batch_iteration,
                  sample_i, valid_iteration, valid_caller, draws, init_calls,
                  completed >>

\* lines 221-224, 238-246: sample_latent_space returns gathered_atoms
SampleDone ==
  /\ dpc = "s_decode"
  /\ seq_index["sample_latent_space"] >= len_max_molec
  /\ completed' = [completed EXCEPT !["sample_latent_space"] = @ + 1]
  /\ Unbind("sample_latent_space")
  /\ sample_i' = sample_i + 1
  /\ dpc' = "s_loop"
  /\ UNCHANGED << mainRest, metricRest, decodeSettings, epoch, batch_iteration,
                  valid_iteration, valid_caller, draws, init_calls,
                  decoder_calls, last_call >>

\* line 248: latent_space_quality returns
SamplerDone ==
  /\ dpc = "s_loop"
  /\ sample_i >= sample_num
  /\ dpc' = "epoch_close"
  /\ UNCHANGED << mainRest, metricRest, decodeSettings, decodeHistory, epoch,
                  batch_iteration, sample_i, valid_iteration, valid_caller,
                  latent, hidden, seq_index, draws >>

\* lines 392-403: the results line (a division by sample_num), then one of
\* the two breaks or the next epoch
DecodeEpochClose ==
  /\ dpc = "epoch_close"
  /\ IF sample_num = 0
     THEN dpc' = "raised" /\ epoch' = epoch
     ELSE \E stop \in BOOLEAN :
            IF stop
            THEN dpc' = "returned" /\ epoch' = epoch
            ELSE dpc' = "epoch" /\ epoch' = epoch + 1
  /\ UNCHANGED << mainRest, metricRest, decodeSettings, decodeHistory,
                  batch_iteration, sample_i, valid_iteration, valid_caller,
                  latent, hidden, seq_index, draws >>

NextDecode ==
  \/ DecodeEpoch
  \/ TrainEncode
  \/ TrainInitHidden
  \/ TrainDecodeStep
  \/ TrainUpdate
  \/ TrainValidate
  \/ ValidEncode
  \/ ValidInitHidden
  \/ ValidDecodeStep
  \/ ValidQuality
  \/ ValidReturn
  \/ DecodeRank
  \/ SampleDraw
  \/ SampleInitHidden
  \/ SampleDecodeStep
  \/ SampleDone
  \/ SamplerDone
  \/ DecodeEpochClose

SpecDecode == InitDecode /\ [][NextDecode]_vars

\* ------------------------------------------------------------- properties

\* the epoch loop of train_model is running and the check at the end of the
\* previous epoch let it go on
LoopWentOn == pc \in {"epoch_start", "batch", "validate"} /\ epoch >= 1

\* an epoch has appended its quality and the end of the epoch is not yet done
AtEpochEnd == pc \in {"sampling", "epoch_end"}

\* the number of samples of the call so far that the oracle answered with ok
RECURSIVE CountAnswers(_, _)
CountAnswers(ok, molecules) ==
  IF molecules = {} THEN 0
  ELSE LET m == CHOOSE x \in molecules : TRUE
       IN  answers[<< m, ok >>] + CountAnswers(ok, molecules \ {m})

\* C1: once an epoch has reached the best validation quality, the loop stops
\* by the rank rule at the end of exactly the 20th consecutive later epoch
\* that does not exceed it: it never goes on, nor exhausts its epochs, with 20
\* such epochs behind it, and it never stops by the rank rule with fewer (or
\* more) than 20.  Runs that the '< 70 and epoch > 200' rule stops are left
\* alone.
C1_RankStopAtTwentieth ==
  best_epoch >= 0 =>
    /\ (exit_via = "rank" => no_improve = 20 /\ quality_increase = 21)
    /\ (LoopWentOn => no_improve < 20)
    /\ (exit_via = "exhausted" => no_improve < 20)
    /\ (AtEpochEnd => no_improve <= 20)

\* C1 witness: the history [0,0,0,0,45,60,80,79,78,...,78] stops when the
\* 20th entry after the 80 has been appended
C1_Witness ==
  /\ exit_via = "rank"
  /\ curve.prefix = <<45, 60, 80, 79, 78>>
  /\ best = 80
  /\ best_epoch = 2
  /\ no_improve = 20
  /\ Len(quality_valid_list) = 4 + 3 + 20

\* C2: at the end of every epoch the sampler has been invoked if and only if
\* the quality just appended is the best so far (rank 1) and above 50; in
\* every other epoch (corr, unique) is the sentinel (-1, -1).
C2_SamplerIffBestAbove50 ==
  AtEpochEnd =>
    /\ quality_increase = Len(quality_valid_list) - argmax(quality_valid_list)
    /\ (quality_increase = 1) <=> (no_improve = 0)
    /\ sampler_invoked <=>
         (no_improve = 0 /\ quality_valid_list[Len(quality_valid_list)] > 50)
    /\ (pc = "sampling" => sampler_invoked)
    /\ (pc = "epoch_end" /\ ~sampler_invoked => corr = -1 /\ unique = -1)
    /\ (pc = "epoch_end" /\ sampler_invoked => corr >= 0 /\ unique >= 0)
    /\ (quality_valid_list = <<0, 0, 0, 0, 81>> => sampler_invoked)
    /\ (quality_valid_list = <<0, 0, 0, 0, 81, 40>> => ~sampler_invoked)

\* C2 witness: the history [0,0,0,0,81,40]: the epoch of the 81 sampled (one
\* line of results), the epoch of the 40 records the sentinel
C2_Witness ==
  /\ pc = "epoch_end"
  /\ quality_valid_list = <<0, 0, 0, 0, 81, 40>>
  /\ results_lines = 1
  /\ ~sampler_invoked
  /\ corr = -1
  /\ unique = -1

\* C3: an epoch whose counter is above 200 and whose quality is below 70 is
\* the last one (no epoch starts after it), whatever the rank; and the rule
\* stops the loop at no epoch whose counter is at most 200 or whose quality is
\* at least 70.
C3_LowQualityStop ==
  /\ (LoopWentOn /\ epoch - 1 > 200 =>
        quality_valid_list[Len(quality_valid_list)] >= 70)
  /\ (exit_via = "low_quality" =>
        epoch > 200 /\ quality_valid_list[Len(quality_valid_list)] < 70)
  /\ (exit_via \in {"rank", "exhausted"} /\ num_epochs > 0 =>
        ~(epoch > 200 /\ quality_valid_list[Len(quality_valid_list)] < 70))

\* C3 witness: the rule stops epoch 201, in which the quality was a new best
\* (rank 1) below 70
C3_Witness ==
  /\ exit_via = "low_quality"
  /\ epoch = 201
  /\ no_improve = 0
  /\ sampler_invoked

\* C4 (safety): the loop is left only with one of the two early-stop
\* conditions holding or with the epoch count exhausted, and never more than
\* num_epochs epochs are run.
C4_ExitReasons ==
  /\ (pc \in {"returned", "exit"} /\ exc = "none" =>
        \/ /\ exit_via = "low_quality"
           /\ quality_valid_list[Len(quality_valid_list)] < 70
           /\ epoch > 200
        \/ /\ exit_via = "rank"
           /\ Len(quality_valid_list) - argmax(quality_valid_list) > 20
        \/ /\ exit_via = "exhausted"
           /\ Len(quality_valid_list) = 4 + num_epochs)
  /\ (quality_valid_list # << >> =>
        /\ Len(quality_valid_list) <= 4 + num_epochs
        /\ results_lines <= num_epochs)
  /\ (pc \in {"epoch_start", "batch", "validate", "sampling", "epoch_end"} =>
        /\ epoch < num_epochs
        /\ exit_via = "none")

\* the positions inside the epoch loop of train_model
InLoop == pc \in {"epoch_start", "batch", "validate", "sampling", "epoch_end"}

C5_SamplerCounts ==
  /\ (pc = "sampling" =>
        /\ CountAnswers(0, Molecules) + CountAnswers(1, Molecules) = sample_i
        /\ total_correct = CountAnswers(1, Molecules)
        /\ all_correct_molecules = { m \in Molecules : answers[<< m, 1 >>] > 0 }
        /\ Cardinality(all_correct_molecules) <= total_correct
        /\ total_correct <= sample_i
        /\ sample_i <= sample_num)
  /\ (pc = "epoch_end" /\ sampler_invoked =>
        /\ 0 <= unique
        /\ unique <= corr
        /\ corr <= sample_num
        /\ (corr > 0 => unique > 0))

\* C5 witness: a call of at least two samples, one rejected and every other
\* one the same accepted string
C5_Witness ==
  /\ pc = "sampling"
  /\ sample_i = sample_num
  /\ sample_num >= 2
  /\ CountAnswers(0, Molecules) = 1
  /\ \E m \in Molecules : answers[<< m, 1 >>] = sample_num - 1
  /\ total_correct = sample_num - 1
  /\ Cardinality(all_correct_molecules) = 1

\* the quality of the batch just evaluated
BatchQuality == quality_list[Len(quality_list)]

\* the batch just evaluated is still in the locals
BatchDone == mpc = "appended"

\* C6: the quality of every batch lies in [0, 100], and it is 100 when the
\* decoded index equals the input index at every position of the batch.
C6_QualityBounded ==
  /\ \A b \in 1..Len(quality_list) :
       /\ quality_list[b].den = positions
       /\ 0 <= quality_list[b].num
       /\ quality_list[b].num <= 100 * quality_list[b].den
  /\ (BatchDone /\ decoded_max_indices = input_max_indices =>
        BatchQuality.num = 100 * BatchQuality.den)
  /\ (mpc = "done" /\ quality_list # << >> =>
        /\ 0 <= quality_mean.num
        /\ quality_mean.num <= 100 * quality_mean.den)

\* C6 witness: a batch decoded exactly scores 100, after one that did not
C6_Witness ==
  /\ BatchDone
  /\ positions = MaxPositions
  /\ decoded_max_indices = input_max_indices
  /\ BatchQuality.num = 100 * positions
  /\ Len(quality_list) = 2
  /\ quality_list[1].num < 100 * positions

\* C7: the marker COMPLETED is written only after train_model returned, by
\* an early stop or by exhausting the epochs; a run that raised anything
\* (the exit() of a missing settings.yml, a caught AttributeError, an
\* uncaught exception) has not written it.
C7_MarkerOnlyAfterTraining ==
  /\ (completed_written =>
        /\ pc = "exit"
        /\ exc = "none"
        /\ ~error_printed
        /\ exit_via \in {"low_quality", "rank", "exhausted"})
  /\ (exc # "none" => ~completed_written /\ pc \in {"raised", "uncaught", "exit"})
  /\ (pc = "exit" /\ exc = "none" => completed_written)
  /\ (pc = "uncaught" \/ error_printed => exc # "none")

\* C7 witness: a run that stopped early wrote the marker
C7_Witness ==
  /\ completed_written
  /\ exit_via = "rank"

\* C8 (as claimed): a stop by the rank rule has at least 20 consecutive
\* completed epochs behind it that did not exceed the best value seen before
\* them, the sentinel zeros included.
C8_TwentyEpochsWithoutImprovement ==
  exit_via = "rank" => no_improve >= 20

\* C9 (as claimed): a position whose indices differ by one contributes a
\* strictly positive score.
C9_OffByOnePartlyCorrect ==
  mpc = "quality" =>
    \A p \in 1..positions :
      Abs(decoded_max_indices[p] - input_max_indices[p]) = 1 =>
        differences[p] > 0

\* the positions of the batch decoded exactly
ExactMatches ==
  { p \in 1..positions : decoded_max_indices[p] = input_max_indices[p] }

\* C9 (amended): the indices are integers, so a position scores 1 if the
\* indices are equal and 0 if they differ by any amount, one included; the
\* metric is 100 times the exact-match fraction of the positions.
C9_ExactMatchFraction ==
  /\ (mpc = "quality" =>
        \A p \in 1..positions :
          differences[p] = IF p \in ExactMatches THEN 1 ELSE 0)
  /\ (BatchDone =>
        /\ BatchQuality.num = 100 * Cardinality(ExactMatches)
        /\ BatchQuality.den = positions)

\* C9 witness: a batch with one position off by one and one position exact
\* scores 50
C9_Witness ==
  /\ BatchDone
  /\ positions = 2
  /\ Abs(decoded_max_indices[1] - input_max_indices[1]) = 1
  /\ decoded_max_indices[2] = input_max_indices[2]
  /\ BatchQuality.num = 100
  /\ BatchQuality.den = 2

\* C10 (as claimed): the read of the undefined `data` is caught by the
\* handler, printed, and the run stops without an exception leaving the script.
C10_UndefinedNameCaught ==
  exc = "NameError" /\ pc # "raised" =>
    pc = "exit" /\ error_printed /\ ~completed_written

\* C10 (amended): with an encoding choice that is neither 0 nor 1 the run
\* gets no further than the read of `data`; the NameError raised there is no
\* AttributeError, so the handler does not catch it: nothing is printed, the
\* exception leaves the script, and no marker is written.
C10_UndefinedNameUncaught ==
  /\ (type_of_encoding \notin {0, 1, Unassigned} =>
        /\ pc \in {"encode", "shape", "raised", "uncaught", "exit"}
        /\ ~completed_written)
  /\ (exc = "NameError" =>
        /\ type_of_encoding \notin {0, 1}
        /\ ~data_defined
        /\ pc \in {"raised", "uncaught"}
        /\ ~error_printed
        /\ ~completed_written)
  /\ (pc = "uncaught" => exc # "AttributeError")

\* C10 witness: the NameError has left the script
C10_Witness ==
  /\ exc = "NameError"
  /\ pc = "uncaught"
  /\ type_of_encoding = 2

\* the decoder is called in function f by this step
DecoderCalled(f) == decoder_calls'[f] = decoder_calls[f] + 1

\* a decode sequence of function f is finished by this step
SequenceFinished(f) == completed'[f] = completed[f] + 1

\* C11: in every decode sequence (training batch, validation batch, sample)
\* init_hidden is called exactly once, before the first decoder call; the
\* first call gets the all-zero hidden state and every later call the hidden
\* state returned by the call just before it; every call gets the latent
\* vector of the sequence; the sequence ends after exactly len_max_molec
\* calls; and the hidden state passed to a call has absorbed nothing but the
\* latent vector of its own sequence (no carry-over from another sequence).
C11_DecodeSequence ==
  /\ [](\A f \in Functions :
          /\ init_calls[f] <= 1
          /\ decoder_calls[f] <= len_max_molec
          /\ (decoder_calls[f] > 0 => init_calls[f] = 1))
  /\ [][\A f \in Functions : DecoderCalled(f) =>
          /\ last_call'.function = f
          /\ last_call'.nth = decoder_calls'[f]
          /\ init_calls[f] = 1
          /\ last_call'.z.bound
          /\ last_call'.z.draw = latent[f].draw
          /\ last_call'.z = latent'[f]
          /\ last_call'.hidden_in = hidden[f]
          /\ last_call'.hidden_out = hidden'[f]
          /\ last_call'.hidden_in.bound
          /\ (last_call'.nth = 1 => last_call'.hidden_in.absorbed = << >>)
          /\ (last_call'.nth > 1 =>
                /\ last_call.function = f
                /\ last_call.nth + 1 = last_call'.nth
                /\ last_call.z = last_call'.z
                /\ last_call.hidden_out = last_call'.hidden_in)
          /\ \A i \in 1..Len(last_call'.hidden_in.absorbed) :
               last_call'.hidden_in.absorbed[i] = last_call'.z.draw
          /\ Len(last_call'.hidden_in.absorbed) = last_call'.nth - 1]_vars
  /\ [][\A f \in Functions : SequenceFinished(f) =>
          /\ init_calls[f] = 1
          /\ decoder_calls[f] = len_max_molec]_vars

\* C11 witness: in the second epoch the last decoder call of a training
\* batch after the first, of a molecule of the largest length, when every
\* function has finished decode sequences before (the local `hidden` of
\* train_model held the state of an earlier batch until line 335)
C11_Witness ==
  /\ dpc = "t_decode"
  /\ epoch >= 1
  /\ batch_iteration >= 1
  /\ len_max_molec = MaxMolLen
  /\ \A f \in Functions : completed[f] >= 1
  /\ last_call.function = "train_model"
  /\ last_call.nth = len_max_molec
  /\ last_call.hidden_in.absorbed # << >>
  /\ last_call.z = latent["train_model"]

====
